---- MODULE Spec2Model ----
(***************************************************************************)
(* State machine of the PDF merge view (src/src/App.tsx): the ordered      *)
(* item list, the busy flag, the error message and the asynchronous        *)
(* mergeAndDownload handler with its suspension points.                    *)
(*                                                                         *)
(* State updates issued inside an event handler are flushed before the     *)
(* next event is dispatched, so every handler sees the list of the latest  *)
(* render; a handler action therefore includes the re-render that follows  *)
(* it, and the rendered controls are functions of the state.               *)
(***************************************************************************)
EXTENDS Integers, Sequences, FiniteSets, TLC

(* ---------------------------- bounds ----------------------------------- *)
MaxIds == 2        \* identifiers crypto.randomUUID hands out in a run with merges
MaxStoreIds == 3   \* the same, in a run of list operations only
MaxBatch == 2      \* files in one FileList
MaxDownloads == 1  \* files handed to the browser in one run

(* ------------------------- the File objects ---------------------------- *)
\* file names are sequences of characters so that toLowerCase and endsWith
\* are computed, not assumed
FileA == [name |-> <<"a">>, type |-> "application/pdf",
          size |-> 262144, doc |-> "A", pages |-> 2]
FileB == [name |-> <<"B", ".", "P", "D", "F">>, type |-> "",
          size |-> 52429, doc |-> "B", pages |-> 1]
FileC == [name |-> <<"c", ".", "p", "d", "f", "x">>, type |-> "text/plain",
          size |-> 1048576, doc |-> "C", pages |-> 1]
Files == {FileA, FileB, FileC}

Batches == UNION {[1..n -> Files] : n \in 0..MaxBatch}

\* String.prototype.toLowerCase, one character
LowerChar(c) ==
  CASE c = "A" -> "a" [] c = "B" -> "b" [] c = "D" -> "d"
    [] c = "F" -> "f" [] c = "P" -> "p" [] OTHER -> c

toLowerCase(s) == [k \in 1..Len(s) |-> LowerChar(s[k])]

endsWith(s, suffix) ==
  /\ Len(suffix) <= Len(s)
  /\ SubSeq(s, Len(s) - Len(suffix) + 1, Len(s)) = suffix

DotPdf == <<".", "p", "d", "f">>

\* the extension compared without toLowerCase
IsPdfCaseSensitive(f) == f.type = "application/pdf" \/ endsWith(f.name, DotPdf)

\* the filter predicate of addFiles
IsPdf(f) == f.type = "application/pdf" \/ endsWith(toLowerCase(f.name), DotPdf)

(* ------------------------------ state ---------------------------------- *)
VARIABLES
  items,        \* useState<PdfItem[]>: sequence of [id, file]
  isMerging,    \* useState(false): the busy flag
  error,        \* useState<string | null>: <<>> is null, <<m>> the message m
  nextId,       \* number of identifiers crypto.randomUUID has handed out
  runs,         \* the mergeAndDownload calls in flight, oldest first, each
                \* [pc, items, idx, mergedPdf]: the await it is suspended at,
                \* the `items` binding it closed over, the position of its
                \* for..of loop (1-based) and the pages of its mergedPdf
  downloads,    \* number of a.click() calls
  lastDownload, \* the page sequence the last a.click() handed to the browser
  liveUrls,     \* object URLs created and not yet revoked
  totalSizeMb   \* the value useMemo holds for the header, in tenths of a MB

vars == <<items, isMerging, error, nextId, runs, downloads, lastDownload,
          liveUrls, totalSizeMb>>

mergeVars == <<runs, isMerging, downloads, lastDownload, liveUrls>>

Null == <<>>
Some(m) == <<m>>

NoValidFilesError == "No PDFs detected. Please add PDF files."
TooFewItemsError == "Add at least two PDFs to merge."
MergeFailed == "Merge failed."

\* values a rejected await can throw: errors with a message, and a value
\* whose message is undefined
NoMessage == "undefined"
Causes == {"read error", NoMessage}

NoOver == 0      \* DragEndEvent.over === null

IdsOf(s) == {s[k].id : k \in 1..Len(s)}

(* ------------------------- totalSizeMb --------------------------------- *)
BytesPerMb == 1024 * 1024

\* items.reduce((sum, it) => sum + it.file.size, 0)
RECURSIVE SumSizes(_)
SumSizes(its) ==
  IF its = <<>> THEN 0 ELSE SumSizes(SubSeq(its, 1, Len(its) - 1))
                              + its[Len(its)].file.size

\* Math.round of p / q for p >= 0, q > 0: the nearest integer, a half going up
MathRound(p, q) == (2 * p + q) \div (2 * q)

\* each file size rounded to tenths, and the tenths added up
TotalSizeByItem(its) ==
  SumSizes([k \in 1..Len(its) |->
    [file |-> [size |-> MathRound(its[k].file.size * 10, BytesPerMb)]]])

\* Math.round((sum / (1024 * 1024)) * 10), the numerator of the value shown;
\* the division by a power of two and the product are exact in a double
TotalSizeOf(its) == MathRound(SumSizes(its) * 10, BytesPerMb)

\* useMemo(..., [items]): computed again when the render sees another list
useMemoTotal(prev, next, cached) ==
  IF next = prev THEN cached ELSE TotalSizeOf(next)

(* -------------------------- addFiles ----------------------------------- *)
\* crypto.randomUUID(): a value never handed out before; n values are out
randomUUID(n) == n + 1

\* the index in the batch used as the id
NewItemsByIndex(pdfs, n) ==
  [k \in 1..Len(pdfs) |-> [id |-> k, file |-> pdfs[k]]]

\* pdfs.map((file) => ({ id: crypto.randomUUID(), file }))
NewItems(pdfs, n) ==
  [k \in 1..Len(pdfs) |-> [id |-> randomUUID(n + k - 1), file |-> pdfs[k]]]

\* Array.from(fileList).filter(...)
PdfsOf(fileList) == SelectSeq(fileList, IsPdf)

\* the list addFiles leaves: its early returns, else [...prev, ...next]
AddResult(prev, fileList, n) ==
  IF Len(fileList) = 0 THEN prev
  ELSE IF Len(PdfsOf(fileList)) = 0 THEN prev
  ELSE prev \o NewItems(PdfsOf(fileList), n)

\* the no-PDF branch without its setError
AddErrorSilent(fileList) == Null

\* the message addFiles leaves: setError(null), then the no-PDF branch
AddError(fileList) ==
  IF Len(fileList) = 0 THEN Null
  ELSE IF Len(PdfsOf(fileList)) = 0 THEN Some(NoValidFilesError)
  ELSE Null

addFiles(fileList, maxIds) ==
  /\ nextId + Len(PdfsOf(fileList)) <= maxIds
  /\ error' = AddError(fileList)
  /\ items' = AddResult(items, fileList, nextId)
  /\ nextId' = nextId + Len(PdfsOf(fileList))
  /\ totalSizeMb' = useMemoTotal(items, items', totalSizeMb)
  /\ UNCHANGED mergeVars

(* -------------------------- onDragEnd ---------------------------------- *)
\* Array.prototype.findIndex over x.id === id: 0-based index, -1 when absent
findIndex(s, id) ==
  IF \E k \in 1..Len(s) : s[k].id = id
    THEN (CHOOSE k \in 1..Len(s) :
            /\ s[k].id = id
            /\ \A j \in 1..(k - 1) : s[j].id # id) - 1
    ELSE -1

\* Array.prototype.splice(start, 1) result: the array without index start
SpliceOut(s, start) ==
  SubSeq(s, 1, start) \o SubSeq(s, start + 2, Len(s))

\* Array.prototype.splice(start, 0, x): x inserted before index start
SpliceIn(s, start, x) ==
  LET at == IF start > Len(s) THEN Len(s) ELSE start IN
  SubSeq(s, 1, at) \o <<x>> \o SubSeq(s, at + 1, Len(s))

\* the two elements exchanged instead of one moved
arrayMoveSwaps(array, from, to) ==
  [k \in 1..Len(array) |->
     IF k = from + 1 THEN array[to + 1]
     ELSE IF k = to + 1 THEN array[from + 1]
     ELSE array[k]]

\* the target index taken after the element is out, so that a move down the
\* list lands one slot short
arrayMoveShort(array, from, to) ==
  SpliceIn(SpliceOut(array, from),
           IF from < to THEN to - 1 ELSE to,
           array[from + 1])

\* arrayMove of @dnd-kit/sortable, indices 0-based
arrayMove(array, from, to) ==
  SpliceIn(SpliceOut(array, from),
           IF to < 0 THEN Len(array) + to ELSE to,
           array[from + 1])

\* the functional update of onDragEnd
MoveUpdate(prev, activeId, overId) ==
  LET oldIndex == findIndex(prev, activeId)
      newIndex == findIndex(prev, overId)
  IN IF oldIndex = -1 \/ newIndex = -1 THEN prev
     ELSE arrayMove(prev, oldIndex, newIndex)

\* the list onDragEnd leaves: its early returns, else the update
DragResult(prev, activeId, overId) ==
  IF overId = NoOver THEN prev
  ELSE IF activeId = overId THEN prev
  ELSE MoveUpdate(prev, activeId, overId)

\* the array reordered in place, so that every holder of it sees the move
onDragEndInPlace(activeId, overId) ==
  /\ items' = DragResult(items, activeId, overId)
  /\ runs' = [r \in 1..Len(runs) |->
               [runs[r] EXCEPT !.items = DragResult(@, activeId, overId)]]
  /\ totalSizeMb' = useMemoTotal(items, items', totalSizeMb)
  /\ UNCHANGED <<error, nextId, isMerging, downloads, lastDownload, liveUrls>>

onDragEnd(activeId, overId) ==
  /\ items' = DragResult(items, activeId, overId)
  /\ UNCHANGED <<error, nextId>>
  /\ totalSizeMb' = useMemoTotal(items, items', totalSizeMb)
  /\ UNCHANGED mergeVars

(* ----------------------- removeItem, clearAll -------------------------- *)
\* the file name taken for the removal key
RemoveUpdateByName(prev, id) ==
  SelectSeq(prev, LAMBDA x :
    \A k \in 1..Len(prev) : prev[k].id = id => x.file.name # prev[k].file.name)

\* the id taken for a position in the list
RemoveUpdateByIndex(prev, id) ==
  IF id \in 1..Len(prev)
    THEN SubSeq(prev, 1, id - 1) \o SubSeq(prev, id + 1, Len(prev))
    ELSE prev

RemoveUpdate(prev, id) == SelectSeq(prev, LAMBDA x : x.id # id)

removeItem(id) ==
  /\ items' = RemoveUpdate(items, id)
  /\ UNCHANGED <<error, nextId>>
  /\ totalSizeMb' = useMemoTotal(items, items', totalSizeMb)
  /\ UNCHANGED mergeVars

clearAll ==
  /\ items' = <<>>
  /\ error' = Null
  /\ UNCHANGED nextId
  /\ totalSizeMb' = useMemoTotal(items, items', totalSizeMb)
  /\ UNCHANGED mergeVars

(* ----------------------- mergeAndDownload ------------------------------ *)
\* the pages of one document copied last page first
PagesReversed(f) == [k \in 1..f.pages |-> <<f.doc, f.pages + 1 - k>>]

\* src.getPageIndices(), copyPages and addPage: the pages of one document in
\* their natural order
Pages(f) == [k \in 1..f.pages |-> <<f.doc, k>>]

\* err?.message ?? "Merge failed."
ErrorMessage(cause) == IF cause = NoMessage THEN MergeFailed ELSE cause

createObjectURL(n) == n + 1
\* the object URL left in place
revokeObjectURLSkipped(n) == n

revokeObjectURL(n) == n - 1

\* the length check off by one
mergeAndDownloadFromOne ==
  /\ IF Len(items) < 1
       THEN /\ error' = Some(TooFewItemsError)
            /\ UNCHANGED mergeVars
       ELSE /\ downloads < MaxDownloads
            /\ error' = Null
            /\ isMerging' = TRUE
            /\ runs' = Append(runs, [pc |-> "create", items |-> items,
                                     idx |-> 1, mergedPdf |-> <<>>])
            /\ UNCHANGED <<downloads, lastDownload, liveUrls>>
  /\ UNCHANGED <<items, totalSizeMb, nextId>>

\* the handler up to its first await
mergeAndDownload ==
  /\ IF Len(items) < 2
       THEN /\ error' = Some(TooFewItemsError)
            /\ UNCHANGED mergeVars
       ELSE /\ downloads < MaxDownloads
            /\ error' = Null
            /\ isMerging' = TRUE
            /\ runs' = Append(runs, [pc |-> "create", items |-> items,
                                     idx |-> 1, mergedPdf |-> <<>>])
            /\ UNCHANGED <<downloads, lastDownload, liveUrls>>
  /\ UNCHANGED <<items, totalSizeMb, nextId>>

\* the array the for..of loop of call r iterates
LoopItems(r) == runs[r].items

\* where the loop of call r goes after k - 1 items are done
LoopAt(r, k) == IF k > Len(LoopItems(r)) THEN "save" ELSE "read"

\* call r leaves the list of calls in flight
Returned(r) == SubSeq(runs, 1, r - 1) \o SubSeq(runs, r + 1, Len(runs))

\* await PDFDocument.create() resolves
CreateDone ==
  \E r \in 1..Len(runs) :
  /\ runs[r].pc = "create"
  /\ runs' = [runs EXCEPT ![r].pc = LoopAt(r, runs[r].idx)]
  /\ UNCHANGED <<items, totalSizeMb, error, nextId, isMerging, downloads,
                 lastDownload, liveUrls>>

\* await it.file.arrayBuffer() resolves
ReadDone ==
  \E r \in 1..Len(runs) :
  /\ runs[r].pc = "read"
  /\ runs' = [runs EXCEPT ![r].pc = "parse"]
  /\ UNCHANGED <<items, totalSizeMb, error, nextId, isMerging, downloads,
                 lastDownload, liveUrls>>

\* await PDFDocument.load(bytes, { ignoreEncryption: true }) resolves
ParseDone ==
  \E r \in 1..Len(runs) :
  /\ runs[r].pc = "parse"
  /\ runs' = [runs EXCEPT ![r].pc = "copy"]
  /\ UNCHANGED <<items, totalSizeMb, error, nextId, isMerging, downloads,
                 lastDownload, liveUrls>>

\* await mergedPdf.copyPages(...) resolves; every copied page is added
CopyDone ==
  \E r \in 1..Len(runs) :
  /\ runs[r].pc = "copy"
  /\ runs' = [runs EXCEPT
       ![r].mergedPdf = @ \o Pages(LoopItems(r)[runs[r].idx].file),
       ![r].idx = @ + 1,
       ![r].pc = LoopAt(r, runs[r].idx + 1)]
  /\ UNCHANGED <<items, totalSizeMb, error, nextId, isMerging, downloads,
                 lastDownload, liveUrls>>

\* the merged list written back to the state when the download is offered
SaveDoneRestoresList ==
  \E r \in 1..Len(runs) :
  /\ runs[r].pc = "save"
  /\ downloads' = downloads + 1
  /\ lastDownload' = runs[r].mergedPdf
  /\ liveUrls' = revokeObjectURL(createObjectURL(liveUrls))
  /\ isMerging' = FALSE
  /\ runs' = Returned(r)
  /\ items' = runs[r].items
  /\ totalSizeMb' = useMemoTotal(items, items', totalSizeMb)
  /\ UNCHANGED <<error, nextId>>


\* await mergedPdf.save() resolves: blob, object URL, a.click(), revoke,
\* then the finally block
SaveDone ==
  \E r \in 1..Len(runs) :
  /\ runs[r].pc = "save"
  /\ downloads' = downloads + 1
  /\ lastDownload' = runs[r].mergedPdf
  /\ liveUrls' = revokeObjectURL(createObjectURL(liveUrls))
  /\ isMerging' = FALSE
  /\ runs' = Returned(r)
  /\ UNCHANGED <<items, totalSizeMb, error, nextId>>

\* the catch block with no finally after it
MergeCatchKeepsBusy(r, cause) ==
  /\ error' = Some(ErrorMessage(cause))
  /\ runs' = Returned(r)
  /\ UNCHANGED <<items, totalSizeMb, nextId, isMerging, downloads,
                 lastDownload, liveUrls>>

\* the catch block offering what was merged so far
MergeCatchOffersPartial(r, cause) ==
  /\ error' = Some(ErrorMessage(cause))
  /\ isMerging' = FALSE
  /\ runs' = Returned(r)
  /\ downloads' = downloads + 1
  /\ lastDownload' = runs[r].mergedPdf
  /\ UNCHANGED <<items, totalSizeMb, nextId, liveUrls>>

\* the catch block, then the finally block
MergeCatch(r, cause) ==
  /\ error' = Some(ErrorMessage(cause))
  /\ isMerging' = FALSE
  /\ runs' = Returned(r)
  /\ UNCHANGED <<items, totalSizeMb, nextId, downloads, lastDownload,
                 liveUrls>>

\* the await call r is suspended at rejects
AwaitFails ==
  \E r \in 1..Len(runs), cause \in Causes : MergeCatch(r, cause)

(* ------------------------ the rendered view ---------------------------- *)
\* the Clear button disabled on the empty list alone
ClearDisabledWhenEmpty == Len(items) = 0

\* disabled={items.length === 0 || isMerging}
ClearDisabled == Len(items) = 0 \/ isMerging

\* the Merge button disabled on the list length alone
MergeDisabledByLengthOnly == Len(items) < 2

\* disabled={isMerging || items.length < 2}
MergeDisabled == isMerging \/ Len(items) < 2

\* onChange of the file input, onDrop of the drop zone
AddFilesEvent == \E fileList \in Batches : addFiles(fileList, MaxIds)

\* a drag of a rendered row ends over a rendered row or over nothing
DragEndEvent ==
  \E activeId \in IdsOf(items), overId \in IdsOf(items) \cup {NoOver} :
    onDragEnd(activeId, overId)

\* the Remove button of a rendered row
RemoveClick == \E id \in IdsOf(items) : removeItem(id)

ClearClick == ~ClearDisabled /\ clearAll

MergeClick == ~MergeDisabled /\ mergeAndDownload

Init ==
  /\ items = <<>>
  /\ isMerging = FALSE
  /\ error = Null
  /\ nextId = 0
  /\ runs = <<>>
  /\ downloads = 0
  /\ lastDownload = <<>>
  /\ liveUrls = 0
  /\ totalSizeMb = TotalSizeOf(<<>>)

Next ==
  \/ AddFilesEvent
  \/ DragEndEvent
  \/ RemoveClick
  \/ ClearClick
  \/ MergeClick
  \/ CreateDone
  \/ ReadDone
  \/ ParseDone
  \/ CopyDone
  \/ SaveDone
  \/ AwaitFails

Spec == Init /\ [][Next]_vars

\* every await of a merge in flight settles: it resolves or it rejects
MergeProgress ==
  CreateDone \/ ReadDone \/ ParseDone \/ CopyDone \/ SaveDone \/ AwaitFails

\* the view, with no await left pending for ever
SpecFair == Init /\ [][Next]_vars /\ WF_vars(MergeProgress)

(* ------------- the handlers called directly, one at a time ------------- *)
\* any id may be passed, and the list may have any length when merge is called
CallAddFiles == \E fileList \in Batches : addFiles(fileList, MaxIds)

CallOnDragEnd ==
  \E activeId \in 1..MaxIds, overId \in (1..MaxIds) \cup {NoOver} :
    onDragEnd(activeId, overId)

CallRemoveItem == \E id \in 1..MaxIds : removeItem(id)

CallClearAll == clearAll

\* the caller awaits one merge before it starts the next
CallMerge == runs = <<>> /\ mergeAndDownload

NextCalls ==
  \/ CallAddFiles
  \/ CallOnDragEnd
  \/ CallRemoveItem
  \/ CallClearAll
  \/ CallMerge
  \/ CreateDone
  \/ ReadDone
  \/ ParseDone
  \/ CopyDone
  \/ SaveDone
  \/ AwaitFails

SpecCalls == Init /\ [][NextCalls]_vars

(* ------------------- the list operations on their own ------------------ *)
StoreIds == 1..MaxStoreIds

StoreAddFiles == \E fileList \in Batches : addFiles(fileList, MaxStoreIds)

StoreOnDragEnd ==
  \E activeId \in StoreIds, overId \in StoreIds \cup {NoOver} :
    onDragEnd(activeId, overId)

StoreRemoveItem == \E id \in StoreIds : removeItem(id)

StoreClearAll == clearAll

NextStore ==
  \/ StoreAddFiles
  \/ StoreOnDragEnd
  \/ StoreRemoveItem
  \/ StoreClearAll

SpecStore == Init /\ [][NextStore]_vars

(* ============================ properties =============================== *)
\* number of pages of the documents of a list
RECURSIVE PageTotal(_)
PageTotal(s) ==
  IF s = <<>> THEN 0 ELSE Head(s).file.pages + PageTotal(Tail(s))

\* o holds, for each item of s in list order, that item's pages 1, 2, ...
IsConcatenation(o, s) ==
  /\ Len(o) = PageTotal(s)
  /\ \A j \in 1..Len(s) : \A k \in 1..s[j].file.pages :
       o[PageTotal(SubSeq(s, 1, j - 1)) + k] = <<s[j].file.doc, k>>

\* the messages the catch block can set
MergeErrors == {Some(c) : c \in Causes \ {NoMessage}} \cup {Some(MergeFailed)}

\* C1: a merge whose awaits all resolve hands the browser one document whose
\* pages are the pages of the merged list's items, item by item in list
\* order and each item's pages in their natural order; a merge that ends
\* without a download ended in the catch block.
C1_MergeConcatenates ==
  [][\A r \in 1..Len(runs) :
       (runs[r].pc = "save" /\ runs' = Returned(r)) =>
          \/ /\ downloads' = downloads + 1
             /\ Len(runs[r].items) >= 2
             /\ IsConcatenation(lastDownload', runs[r].items)
          \/ /\ downloads' = downloads
             /\ error' \in MergeErrors]_vars

C1_Witness ==
  /\ downloads = 1
  /\ lastDownload = << <<"A", 1>>, <<"A", 2>>, <<"B", 1>> >>

\* C2: the ids of the list are pairwise distinct in every reachable state,
\* and every step leaves the list as it was or as one append, remove, move
\* or clear applied to the previous list leaves it.
IdsUnique(s) == \A i \in 1..Len(s) : \A j \in 1..Len(s) : i # j => s[i].id # s[j].id

Without(s, k) == SubSeq(s, 1, k - 1) \o SubSeq(s, k + 1, Len(s))

IsAppendOf(t, s) ==
  /\ Len(t) > Len(s)
  /\ Len(t) <= Len(s) + MaxBatch
  /\ SubSeq(t, 1, Len(s)) = s
  /\ \A k \in (Len(s) + 1)..Len(t) : t[k].id \notin IdsOf(s)

IsRemoveOf(t, s) == \E k \in 1..Len(s) : t = Without(s, k)

IsMoveOf(t, s) ==
  \E i \in 1..Len(s) : \E j \in 1..Len(s) :
    /\ Len(t) = Len(s)
    /\ t[j] = s[i]
    /\ Without(t, j) = Without(s, i)

C2_UniqueIdsAndOrder ==
  /\ [](IdsUnique(items))
  /\ [][\/ items' = items
        \/ IsAppendOf(items', items)
        \/ IsRemoveOf(items', items)
        \/ IsMoveOf(items', items)
        \/ items' = <<>>]_vars

C2_Witness ==
  /\ Len(items) = 2
  /\ items[1].id = 2
  /\ items[2].id = 1
  /\ runs # <<>>

\* C4: a merge that ends in the catch block, at whichever await it failed,
\* offers no file, creates no object URL, sets the message of the cause (the
\* fixed message when the cause has none), clears the busy flag and leaves
\* the list as it was; a merge offers a file only from its last await, and
\* then sets no message.
C4_FailureAborts ==
  [][\A r \in 1..Len(runs) :
       runs' = Returned(r) =>
          /\ items' = items
          /\ ~isMerging'
          /\ liveUrls' = liveUrls
          /\ \/ /\ runs[r].pc = "save"
                /\ downloads' = downloads + 1
                /\ error' = error
             \/ /\ downloads' = downloads
                /\ lastDownload' = lastDownload
                /\ error' \in MergeErrors]_vars

C4_Witness ==
  /\ runs = <<>>
  /\ error \in MergeErrors
  /\ downloads = 0
  /\ Len(items) = 2
  /\ ~isMerging

\* C5: at most one mergeAndDownload call is in flight, the busy flag is set
\* exactly while one is, and the Merge button is disabled for that time.
C5_OneMergeInFlight ==
  /\ Len(runs) <= 1
  /\ isMerging <=> runs # <<>>
  /\ runs # <<>> => MergeDisabled

C5_Witness ==
  /\ Len(runs) = 1
  /\ Len(items) >= 2
  /\ runs[1].pc = "parse"
  /\ isMerging

\* position (1-based) of the item with this id
PosOf(s, id) == CHOOSE k \in 1..Len(s) : s[k].id = id

\* C3: for every list reached and every pair of ids, onDragEnd with both ids
\* in the list and different leaves the dragged item at the position the
\* target had, every item between the two positions one slot nearer to the
\* position the dragged item left, every other item in place, and so the same
\* items; with an id that is not in the list, no target, or equal ids it
\* leaves the list as it is.
C3_MoveToTargetIndex ==
  \A a \in StoreIds : \A o \in StoreIds \cup {NoOver} :
    LET t == DragResult(items, a, o) IN
    IF a \in IdsOf(items) /\ o \in IdsOf(items) /\ a # o
      THEN LET i == PosOf(items, a)
               j == PosOf(items, o)
           IN /\ Len(t) = Len(items)
              /\ t[j] = items[i]
              /\ \A k \in 1..Len(items) :
                   /\ (k < i /\ k < j) => t[k] = items[k]
                   /\ (k > i /\ k > j) => t[k] = items[k]
                   /\ (i < k /\ k <= j) => t[k - 1] = items[k]
                   /\ (j <= k /\ k < i) => t[k + 1] = items[k]
              /\ {t[k] : k \in 1..Len(t)} = {items[k] : k \in 1..Len(items)}
      ELSE t = items

\* item 1 dragged over item 3 in a list of three
C3_Witness ==
  /\ Len(items) = 3
  /\ items[1].id = 2
  /\ items[2].id = 3
  /\ items[3].id = 1

\* the files of the batches that the filter is to keep
Matching == {FileA, FileB}

\* C6: for every list reached and every batch with at least one matching
\* file, addFiles leaves the previous entries in place and adds after them
\* exactly the matching files of the batch, in batch order, under ids that
\* are pairwise distinct and were never handed out before.
C6_AppendKeepsMatching ==
  \A fileList \in Batches :
    LET t == AddResult(items, fileList, nextId)
        kept == SelectSeq(fileList, LAMBDA f : f \in Matching)
    IN kept # <<>> =>
         /\ Len(t) = Len(items) + Len(kept)
         /\ SubSeq(t, 1, Len(items)) = items
         /\ \A k \in 1..Len(kept) :
              /\ t[Len(items) + k].file = kept[k]
              /\ t[Len(items) + k].id \notin 1..nextId
              /\ t[Len(items) + k].id \notin IdsOf(items)
         /\ IdsUnique(t)

\* an entry, then a batch of the extension-matched and the type-matched file
C6_Witness ==
  /\ Len(items) = 3
  /\ items[1].id = 1
  /\ items[2] = [id |-> 2, file |-> FileB]
  /\ items[3] = [id |-> 3, file |-> FileA]
  /\ error = Null

\* C7: for every list reached, addFiles with a batch that is not empty and
\* holds no matching file leaves the list as it is and sets the no-PDF
\* message; with an empty batch it leaves the list as it is and the message
\* null.
C7_NoValidFiles ==
  \A fileList \in Batches :
    LET kept == SelectSeq(fileList, LAMBDA f : f \in Matching) IN
    /\ (Len(fileList) > 0 /\ kept = <<>>) =>
         /\ AddResult(items, fileList, nextId) = items
         /\ AddError(fileList) = Some(NoValidFilesError)
    /\ Len(fileList) = 0 =>
         /\ AddResult(items, fileList, nextId) = items
         /\ AddError(fileList) = Null

C7_Witness ==
  /\ error = Some(NoValidFilesError)
  /\ Len(items) = 2

\* C8: a mergeAndDownload call on a list of fewer than two items sets the
\* too-few message and nothing else: no call is in flight afterwards, the busy
\* flag, the downloads and the list are as before; and no call in flight
\* ever reads a list of fewer than two items.
C8_TooFewRejected ==
  /\ [](\A r \in 1..Len(runs) : Len(runs[r].items) >= 2)
  /\ [][Len(runs') > Len(runs) => Len(items) >= 2]_vars
  /\ [][(error' = Some(TooFewItemsError) /\ error' # error) =>
          /\ Len(items) < 2
          /\ UNCHANGED <<items, totalSizeMb, nextId, runs, isMerging, downloads,
                         lastDownload, liveUrls>>
          /\ runs = <<>>
          /\ ~isMerging]_vars

C8_Witness ==
  /\ error = Some(TooFewItemsError)
  /\ Len(items) = 1
  /\ runs = <<>>
  /\ ~isMerging
  /\ downloads = 0

\* C9 as claimed: for every list and every pair of ids, onDragEnd applied
\* twice leaves the list that onDragEnd applied once leaves.
C9_MoveIdempotent ==
  \A a \in StoreIds : \A o \in StoreIds \cup {NoOver} :
    DragResult(DragResult(items, a, o), a, o) = DragResult(items, a, o)

\* C9 amended: onDragEnd applied twice leaves the list of one application
\* exactly when one application changes nothing (an id not in the list, no
\* target, or equal ids); with both ids in the list and different the second
\* application exchanges the dragged item with the target again, so the list
\* differs from that of one application, and for neighbours it is the
\* original list.
C9_MoveTwice ==
  \A a \in StoreIds : \A o \in StoreIds \cup {NoOver} :
    LET once == DragResult(items, a, o)
        twice == DragResult(once, a, o)
    IN IF a \in IdsOf(items) /\ o \in IdsOf(items) /\ a # o
         THEN /\ twice # once
              /\ once # items
              /\ PosOf(twice, a) = PosOf(once, o)
              /\ (PosOf(items, a) - PosOf(items, o) \in {-1, 1}) => twice = items
         ELSE twice = once /\ once = items

\* item 1 dragged over item 2, its neighbour
C9_Witness ==
  /\ Len(items) = 3
  /\ items[1].id = 2
  /\ items[2].id = 1
  /\ items[3].id = 3

\* pages of the documents of a list, item after item
RECURSIVE ConcatPages(_)
ConcatPages(s) ==
  IF s = <<>> THEN <<>>
  ELSE [k \in 1..Head(s).file.pages |-> <<Head(s).file.doc, k>>]
         \o ConcatPages(Tail(s))

\* C10: the list a merge works on is the list at the click: list operations
\* while the merge is suspended leave it as it was, at every await the pages
\* merged so far are those of its first items, and the file offered holds the
\* pages of that list, whatever the list has become.
C10_MergeOnSnapshot ==
  /\ [](\A r \in 1..Len(runs) :
          /\ runs[r].idx \in 1..(Len(runs[r].items) + 1)
          /\ runs[r].mergedPdf =
               ConcatPages(SubSeq(runs[r].items, 1, runs[r].idx - 1))
          /\ runs[r].pc = "save" <=> runs[r].idx = Len(runs[r].items) + 1)
  /\ [][Len(runs') > Len(runs) => runs'[Len(runs')].items = items]_vars
  /\ [][(runs # <<>> /\ runs' # <<>>) => runs'[1].items = runs[1].items]_vars
  /\ [][(runs # <<>> /\ downloads' = downloads + 1) =>
          lastDownload' = ConcatPages(runs[1].items)]_vars

\* every item merged while the list no longer holds what was clicked on
C10_Witness ==
  /\ Len(runs) = 1
  /\ runs[1].pc = "save"
  /\ IdsOf(items) # IdsOf(runs[1].items)
  /\ Len(runs[1].mergedPdf) = 3

\* C11: for every list reached and every id, removeItem with an id of the
\* list leaves the list without that one item, the others in their order;
\* with an id that is not in the list it leaves the list as it is; and a step
\* that takes one item out of a longer list leaves the message as it was.
C11_RemoveById ==
  /\ [](\A id \in StoreIds :
          LET t == RemoveUpdate(items, id) IN
          IF id \in IdsOf(items)
            THEN /\ t = Without(items, PosOf(items, id))
                 /\ id \notin IdsOf(t)
                 /\ Len(t) = Len(items) - 1
            ELSE t = items)
  /\ [][(Len(items) >= 2 /\ Len(items') = Len(items) - 1) =>
          /\ IsRemoveOf(items', items)
          /\ error' = error]_vars

\* the middle one of three items removed while the no-PDF message is shown
C11_Witness ==
  /\ Len(items) = 2
  /\ items[1].id = 1
  /\ items[2].id = 3
  /\ error = Some(NoValidFilesError)

\* C12: when every await settles, a merge that has set the busy flag clears
\* it again; the flag is set only while a merge is in flight, and the step
\* that clears it either hands a file to the browser or sets a merge error.
C12_MergeReturnsToIdle ==
  /\ isMerging ~> ~isMerging
  /\ [](runs = <<>> => ~isMerging)
  /\ [][(isMerging /\ ~isMerging') =>
          \/ downloads' = downloads + 1 /\ error' = error
          \/ downloads' = downloads /\ error' \in MergeErrors]_vars

\* a merge of two one-page files has offered its file and cleared the flag
C12_Witness ==
  /\ ~isMerging
  /\ runs = <<>>
  /\ downloads = 1
  /\ error = Null
  /\ Len(lastDownload) = 2

\* C13: after a user action the message shown is none or the error that
\* action raised, never one an earlier action left: a step that changes the
\* list (an append that adds, a remove, a move, a clear; none of them raises
\* an error) leaves no message; and a step that sets a message leaves the
\* list as it was.
C13_ErrorReplacedOnNextAction ==
  /\ [][items' # items => error' = Null]_vars
  /\ [][(error' # error /\ error' # Null) => items' = items]_vars

\* C14: an id is bound to its file when addFiles makes the item and the
\* binding never changes: ids in the list are distinct and were handed out by
\* randomUUID, every step keeps the file of each id that stays in the list and
\* gives each item that enters the list an id never handed out before; and
\* removeItem and onDragEnd with one id keep every item of another id, also
\* one with the same file name.
C14_IdAssignedOnce ==
  /\ [](IdsUnique(items) /\ IdsOf(items) \subseteq 1..nextId)
  /\ [][\A k \in 1..Len(items) : \A j \in 1..Len(items') :
          items'[j].id = items[k].id => items'[j].file = items[k].file]_vars
  /\ [][\A j \in 1..Len(items') :
          items'[j].id \notin IdsOf(items) => items'[j].id > nextId]_vars
  /\ [](\A id \in StoreIds :
          LET t == RemoveUpdate(items, id) IN
          \A k \in 1..Len(items) :
            items[k].id # id => \E j \in 1..Len(t) : t[j] = items[k])
  /\ [](\A a \in StoreIds : \A o \in StoreIds \cup {NoOver} :
          LET t == DragResult(items, a, o) IN
          \A k \in 1..Len(items) : \E j \in 1..Len(t) : t[j] = items[k])

\* three files of one name appended, the second removed, the third dragged
\* over the first
C14_Witness ==
  /\ Len(items) = 2
  /\ items[1].id = 3
  /\ items[2].id = 1
  /\ items[1].file.name = items[2].file.name

\* sum of the byte sizes of the files of a list
RECURSIVE ByteSum(_)
ByteSum(s) == IF s = <<>> THEN 0 ELSE Head(s).file.size + ByteSum(Tail(s))

\* C15: in every state the total shown, in tenths of a megabyte, is the
\* number of tenths nearest to the sum of the sizes of the items now in the
\* list taken in megabytes of 1,048,576 bytes, a sum half way between two
\* tenths going to the upper one.
C15_SizeTotal ==
  /\ totalSizeMb >= 0
  /\ 2 * 1048576 * totalSizeMb - 1048576 <= 20 * ByteSum(items)
  /\ 20 * ByteSum(items) < 2 * 1048576 * totalSizeMb + 1048576

\* three files appended, the first removed: 0.05 MB and 0.25 MB show 0.3
C15_Witness ==
  /\ Len(items) = 2
  /\ items[1].id = 2
  /\ ByteSum(items) = 314573
  /\ totalSizeMb = 3

\* C16 as claimed: in every state with something to clear, a merge in flight
\* or not, the Clear button is available.
C16_ClearAlwaysAvailable == items # <<>> => ~ClearDisabled

\* C16 amended: the Clear button can be clicked exactly when the list is not
\* empty and no merge is in flight; a step that empties a list of two or more
\* items is that click: it happens with no merge in flight, sets the message
\* to null and the total to 0 and starts nothing.
C16_ClearWhenIdle ==
  /\ []((ENABLED ClearClick) <=> (items # <<>> /\ ~isMerging))
  /\ [][(Len(items) >= 2 /\ items' = <<>>) =>
          /\ ~isMerging /\ runs = <<>>
          /\ error' = Null
          /\ totalSizeMb' = 0
          /\ UNCHANGED <<nextId, runs, isMerging, downloads, lastDownload,
                         liveUrls>>]_vars

\* a merge in flight over a list that is not empty: no clear
C16_Witness ==
  /\ isMerging
  /\ Len(runs) = 1
  /\ items # <<>>
  /\ ~ENABLED ClearClick

\* C17: no object URL outlives the step that made it, so none is left when a
\* merge has finished; every step hands at most one file to the browser, and
\* the step that does is the return of a merge whose loop has merged every
\* item of its list and whose save has resolved.
C17_UrlReleased ==
  /\ [](liveUrls = 0)
  /\ [][downloads' # downloads =>
          /\ downloads' = downloads + 1
          /\ \E r \in 1..Len(runs) :
               /\ runs[r].pc = "save"
               /\ runs[r].idx = Len(runs[r].items) + 1
               /\ Len(runs[r].mergedPdf) = PageTotal(runs[r].items)
               /\ lastDownload' = runs[r].mergedPdf
               /\ runs' = Returned(r)
          /\ ~isMerging'
          /\ liveUrls' = 0]_vars

\* two two-page documents merged: four pages offered once, no URL left
C17_Witness ==
  /\ downloads = 1
  /\ liveUrls = 0
  /\ ~isMerging
  /\ runs = <<>>
  /\ Len(lastDownload) = 4

\* C18: no step of a merge writes the list: a step that starts a merge,
\* resolves one of its awaits, offers its download, ends it in the catch
\* block or rejects it for too few items leaves the list, the id counter and
\* the size total as they were; so while a merge is in flight the list
\* changes only by an append, a removal or a move, each applied to the list
\* as it then is.
C18_MergeLeavesList ==
  /\ [][(\/ runs' # runs
         \/ isMerging' # isMerging
         \/ downloads' # downloads
         \/ lastDownload' # lastDownload
         \/ error' # error /\ error' \in MergeErrors
         \/ error' # error /\ error' = Some(TooFewItemsError)) =>
          /\ items' = items
          /\ nextId' = nextId
          /\ totalSizeMb' = totalSizeMb]_vars
  /\ [][(runs # <<>> /\ items' # items) =>
          /\ \/ IsAppendOf(items', items)
             \/ IsRemoveOf(items', items)
             \/ IsMoveOf(items', items)
          /\ UNCHANGED <<runs, isMerging, downloads, lastDownload>>]_vars

\* a download of three pages offered, and the list is no longer the one that
\* was merged: its pages in list order are not the pages of the download
C18_Witness ==
  /\ runs = <<>>
  /\ ~isMerging
  /\ downloads = 1
  /\ Len(lastDownload) = 3
  /\ Len(items) = 2
  /\ ConcatPages(items) # lastDownload

====
